---- MODULE Spec2Model ----
(***************************************************************************)
(* A state-machine model of profiling_examples.py: the command-line        *)
(* dispatcher (the __main__ block), _list_functions and the seven          *)
(* demonstration routines.                                                 *)
(*                                                                         *)
(* Conventions.                                                            *)
(*  - An optional value (argparse's None or a string) is a sequence of     *)
(*    length 0 or 1: <<>> is None, <<s>> is the string s.                  *)
(*  - Printed output is the sequence out of pairs <<kind, value>>.         *)
(*  - The floats of assertion_example are integers in units of 0.001;      *)
(*    the rounding of float addition is outside the model.                 *)
(*  - The sizes of the artificial workloads (range(500_000) and the like)  *)
(*    are scaled down to n \in 0..MaxN.                                    *)
(***************************************************************************)
EXTENDS Integers, Sequences, FiniteSets

\* ------------------------------------------------------------ bounds
MaxN == 4        \* largest workload size range(n)
MaxLen == 3      \* longest input sequence of the assertion loop
MaxVal == 2      \* largest element of such a sequence
MinNeg == 1      \* elements go down to -MinNeg
MaxBytes == 2    \* largest number of bytes one workload line allocates
MaxTick == 2     \* largest advance of the monotonic clock over the workload
MaxRss == 2      \* largest resident-set reading

\* ------------------------------------------------------------ names
\* The list fns of _list_functions, in its order.
FnsList ==
    << "assertion_example", "timing_example", "cprofile_example",
       "tracemalloc_example", "memory_profiler_example",
       "memory_profiler_eficient_example", "psutil_rss_example" >>

Advertised == { FnsList[k] : k \in 1..Len(FnsList) }

\* The names under "Funcions disponibles:" in the module docstring.
DocstringFns ==
    { "assertion_example", "timing_example", "cprofile_example",
      "tracemalloc_example", "memory_profiler_example", "psutil_rss_example" }

\* Every def statement at module level.
FunctionDefs ==
    { "assertion_example", "timing_example", "cprofile_example",
      "tracemalloc_example", "memory_profiler_example",
      "memory_profiler_eficient_example", "psutil_rss_example",
      "_list_functions" }

\* Module-level names bound to something that is not callable: the
\* __future__ feature, the argparse module, the parser, the parsed
\* namespace and the module's own dunder names.
OtherGlobals == { "annotations", "argparse", "parser", "args", "__name__", "__doc__" }

\* globals() at line 196: name -> object.  A function object carries the
\* name of the def that created it.
Globals ==
    [ g \in FunctionDefs \cup OtherGlobals |->
        IF g \in FunctionDefs THEN [kind |-> "function", def |-> g]
                              ELSE [kind |-> "other", def |-> g] ]

NoneObj == [kind |-> "none", def |-> ""]

\* globals().get(name): None when the name is unbound.
GlobalsGet(name) == IF name \in DOMAIN Globals THEN Globals[name] ELSE NoneObj

\* callable(fn)
Callable(obj) == obj.kind = "function"

\* `not args.func`: None and the empty string are both falsy.
Falsy_IsNone(a) == a = <<>>
Falsy(a) == a = <<>> \/ a = <<"">>

\* What _list_functions prints.
ListOutput ==
    << <<"header", "Funcions disponibles:">> >>
        \o [ k \in 1..Len(FnsList) |-> <<"item", FnsList[k]>> ]

\* The first statement of each function body.
EntryPc(def) ==
    CASE def = "assertion_example" -> "assert_enter"
      [] def = "timing_example" -> "timing_t0"
      [] def = "cprofile_example" -> "cp_enter"
      [] def = "tracemalloc_example" -> "tm_start"
      [] def = "memory_profiler_example" -> "mp_import"
      [] def = "memory_profiler_eficient_example" -> "mpe_import"
      [] def = "psutil_rss_example" -> "ps_import"
      [] def = "_list_functions" -> "list_fn"

\* Values of --func the model runs: absent, empty, every advertised name,
\* a private function, a non-callable global and an unbound name.
ArgStrings == Advertised \cup { "", "_list_functions", "annotations", "nope" }
ArgValues == { <<>> } \cup { <<s>> : s \in ArgStrings }

\* ------------------------------------------------------------ pure helpers
RECURSIVE SeqSum(_)
SeqSum(s) == IF s = <<>> THEN 0 ELSE s[1] + SeqSum(Tail(s))

\* numbers of assertion_example, in units of 0.001.
Numbers == << 1500, 2300, 700, -1, 4400 >>

\* The asserted condition n >= 0.0.
AssertCheck_Positive(x) == x > 0
AssertCheck(x) == x >= 0

\* [i for i in range(size)]
RangeList(size) == [ k \in 1..size |-> k - 1 ]

\* [x * 2 for x in data]
DoubledList(d) == [ k \in 1..Len(d) |-> d[k] * 2 ]

\* work() of memory_profiler_example: build, double, sum.
WorkListBased(size) == SeqSum(DoubledList(RangeList(size)))

\* The loop body of work() of memory_profiler_eficient_example.
LoopBody_NoDouble(t, k) == t + k
LoopBody(t, k) == t + k * 2

\* The source lines of allocate_data that allocate.
WorkloadLineSeq == << 71, 72 >>
WorkloadLines == { WorkloadLineSeq[k] : k \in 1..Len(WorkloadLineSeq) }

\* ------------------------------------------------------------ state
VARIABLES
    args_func,     \* args.func: <<>> (None) or <<string>>
    mpAvail,       \* whether `from memory_profiler import profile` succeeds
    psAvail,       \* whether `import psutil` succeeds
    n,             \* the scaled workload size
    pc,            \* the statement about to run
    branch,        \* the dispatcher branch taken: none, list, call, notfound
    invoked,       \* the defs the dispatcher has called, in order
    out,           \* what has been printed
    raised,        \* the exception that ended the process, or "none"
    numbers, idx, total,                   \* assertion_example
    data, doubled, i, acc,                 \* the two work() functions
    decorator,     \* what `profile` is bound to: unbound, profile, noop
    profiledRuns,  \* runs of a work() wrapped by memory_profiler's profile
    rssSamples,    \* calls of proc.memory_info()
    held,          \* whether psutil_rss_example's data is still referenced
    tracing,       \* tracemalloc.is_tracing()
    traced,        \* bytes currently attributed to each workload line
    snap1, snap2,  \* the snapshots: <<>> or <<line -> bytes>>
    tmEvents,      \* tracemalloc_example's calls, in order
    profiling,     \* whether the cProfile context is active
    clock, t0      \* time.perf_counter() and the first reading

env == << args_func, mpAvail, psAvail, n >>
disp == << branch, invoked >>
assertVars == << numbers, idx, total >>
workVars == << data, doubled, i, acc, decorator, profiledRuns >>
psVars == << rssSamples, held >>
tmVars == << tracing, traced, snap1, snap2, tmEvents >>
cpVars == << profiling, clock, t0 >>

vars == << args_func, mpAvail, psAvail, n, pc, branch, invoked, out, raised,
           numbers, idx, total, data, doubled, i, acc, decorator, profiledRuns,
           rssSamples, held, tracing, traced, snap1, snap2, tmEvents,
           profiling, clock, t0 >>

\* Everything but the inputs, as the interpreter leaves it at line 192.
Fresh ==
    /\ branch = "none" /\ invoked = <<>> /\ out = <<>> /\ raised = "none"
    /\ numbers = <<>> /\ idx = 1 /\ total = 0
    /\ data = <<>> /\ doubled = <<>> /\ i = 0 /\ acc = 0
    /\ decorator = "unbound" /\ profiledRuns = 0
    /\ rssSamples = 0 /\ held = FALSE
    /\ tracing = FALSE /\ traced = [ l \in WorkloadLines |-> 0 ]
    /\ snap1 = <<>> /\ snap2 = <<>> /\ tmEvents = <<>>
    /\ profiling = FALSE /\ clock = 0 /\ t0 = 0

Init ==
    /\ args_func \in ArgValues
    /\ mpAvail \in BOOLEAN
    /\ psAvail \in BOOLEAN
    /\ n \in 0..MaxN
    /\ pc = "main"
    /\ Fresh

\* ------------------------------------------------------------ dispatcher
\* if not args.func: _list_functions()
DispatchList ==
    /\ pc = "main"
    /\ Falsy(args_func)
    /\ branch' = "list"
    /\ out' = out \o ListOutput
    /\ pc' = "exit"
    /\ UNCHANGED << env, invoked, raised, assertVars, workVars, psVars, tmVars, cpVars >>

\* fn = globals().get(args.func); if callable(fn): fn()
DispatchCall ==
    /\ pc = "main"
    /\ ~Falsy(args_func)
    /\ Callable(GlobalsGet(args_func[1]))
    /\ branch' = "call"
    /\ invoked' = Append(invoked, GlobalsGet(args_func[1]).def)
    /\ pc' = EntryPc(GlobalsGet(args_func[1]).def)
    /\ UNCHANGED << env, out, raised, assertVars, workVars, psVars, tmVars, cpVars >>

\* A variant that indexes globals() and lets the KeyError escape.
DispatchNotFound_KeyError ==
    /\ pc = "main"
    /\ ~Falsy(args_func)
    /\ ~Callable(GlobalsGet(args_func[1]))
    /\ branch' = "notfound"
    /\ raised' = "KeyError"
    /\ pc' = "exit"
    /\ UNCHANGED << env, invoked, out, assertVars, workVars, psVars, tmVars, cpVars >>

\* else: print(f"Funció no trobada: {args.func}\n"); _list_functions()
DispatchNotFound ==
    /\ pc = "main"
    /\ ~Falsy(args_func)
    /\ ~Callable(GlobalsGet(args_func[1]))
    /\ branch' = "notfound"
    /\ out' = Append(out, <<"notfound", args_func[1]>>) \o ListOutput
    /\ pc' = "exit"
    /\ UNCHANGED << env, invoked, raised, assertVars, workVars, psVars, tmVars, cpVars >>

\* _list_functions called as a routine (it is a callable global).
ListFunctionsRun ==
    /\ pc = "list_fn"
    /\ out' = out \o ListOutput
    /\ pc' = "exit"
    /\ UNCHANGED << env, disp, raised, assertVars, workVars, psVars, tmVars, cpVars >>

\* ------------------------------------------------------------ assertion_example
\* numbers = [...]; total = 0.0
AssertEnter ==
    /\ pc = "assert_enter"
    /\ numbers' = Numbers
    /\ total' = 0
    /\ idx' = 1
    /\ pc' = "assert_loop"
    /\ UNCHANGED << env, disp, out, raised, workVars, psVars, tmVars, cpVars >>

\* The for loop, one step: the next element is checked and added
\* (assert n >= 0.0; total += n), or the assertion fails and the
\* AssertionError leaves the routine uncaught, or the sequence is
\* exhausted and print('total és:', total) runs.
AssertLoop ==
    /\ pc = "assert_loop"
    /\ IF idx <= Len(numbers)
       THEN IF AssertCheck(numbers[idx])
            THEN /\ total' = total + numbers[idx]
                 /\ idx' = idx + 1
                 /\ UNCHANGED << pc, out, raised >>
            ELSE /\ raised' = "AssertionError"
                 /\ pc' = "exit"
                 /\ UNCHANGED << total, idx, out >>
       ELSE /\ out' = Append(out, <<"total", total>>)
            /\ pc' = "exit"
            /\ UNCHANGED << total, idx, raised >>
    /\ UNCHANGED << env, disp, numbers, workVars, psVars, tmVars, cpVars >>

\* ------------------------------------------------------------ timing_example
\* t0 = time.perf_counter()
TimingT0 ==
    /\ pc = "timing_t0"
    /\ t0' = clock
    /\ pc' = "timing_work"
    /\ UNCHANGED << env, disp, out, raised, assertVars, workVars, psVars, tmVars,
                    profiling, clock >>

\* work_timing(): the monotonic clock advances while it runs.
TimingWork ==
    /\ pc = "timing_work"
    /\ \E d \in 0..MaxTick : clock' = clock + d
    /\ pc' = "timing_t1"
    /\ UNCHANGED << env, disp, out, raised, assertVars, workVars, psVars, tmVars,
                    profiling, t0 >>

\* t1 = time.perf_counter(); print(f"Temps: {t1 - t0:.6f} s")
TimingT1 ==
    /\ pc = "timing_t1"
    /\ out' = Append(out, <<"elapsed", clock - t0>>)
    /\ pc' = "exit"
    /\ UNCHANGED << env, disp, raised, assertVars, workVars, psVars, tmVars, cpVars >>

\* ------------------------------------------------------------ cprofile_example
\* with cProfile.Profile() as pr:   (__enter__ enables the profiler)
CpEnter ==
    /\ pc = "cp_enter"
    /\ profiling' = TRUE
    /\ pc' = "cp_work"
    /\ UNCHANGED << env, disp, out, raised, assertVars, workVars, psVars, tmVars,
                    clock, t0 >>

\* work_profile() inside the with block
CpWork ==
    /\ pc = "cp_work"
    /\ \E d \in 0..MaxTick : clock' = clock + d
    /\ pc' = "cp_exit"
    /\ UNCHANGED << env, disp, out, raised, assertVars, workVars, psVars, tmVars,
                    profiling, t0 >>

\* the end of the with block   (__exit__ disables the profiler)
CpExit ==
    /\ pc = "cp_exit"
    /\ profiling' = FALSE
    /\ pc' = "cp_report"
    /\ UNCHANGED << env, disp, out, raised, assertVars, workVars, psVars, tmVars,
                    clock, t0 >>

\* pstats.Stats(pr).strip_dirs().sort_stats("cumtime"); stats.print_stats(10)
CpReport ==
    /\ pc = "cp_report"
    /\ out' = Append(out, <<"stats", "cumtime">>)
    /\ pc' = "exit"
    /\ UNCHANGED << env, disp, raised, assertVars, workVars, psVars, tmVars, cpVars >>

\* ------------------------------------------------------------ tracemalloc_example
\* The order of the statements of tracemalloc_example.
TmNextPc_LateBaseline(p) ==
    CASE p = "tm_start" -> "tm_alloc_data"
      [] p = "tm_alloc_data" -> "tm_alloc_mapping"
      [] p = "tm_alloc_mapping" -> "tm_snap1"
      [] p = "tm_snap1" -> "tm_return"
      [] p = "tm_return" -> "tm_snap2"
      [] p = "tm_snap2" -> "tm_report"
      [] p = "tm_report" -> "exit"
TmNextPc(p) ==
    CASE p = "tm_start" -> "tm_snap1"
      [] p = "tm_snap1" -> "tm_alloc_data"
      [] p = "tm_alloc_data" -> "tm_alloc_mapping"
      [] p = "tm_alloc_mapping" -> "tm_return"
      [] p = "tm_return" -> "tm_snap2"
      [] p = "tm_snap2" -> "tm_report"
      [] p = "tm_report" -> "exit"

\* tracemalloc.start()
TmStart ==
    /\ pc = "tm_start"
    /\ tracing' = TRUE
    /\ tmEvents' = Append(tmEvents, "start")
    /\ pc' = TmNextPc(pc)
    /\ UNCHANGED << env, disp, out, raised, assertVars, workVars, psVars,
                    traced, snap1, snap2, cpVars >>

\* snap1 = tracemalloc.take_snapshot()
TmSnap1 ==
    /\ pc = "tm_snap1"
    /\ tracing
    /\ snap1' = << traced >>
    /\ tmEvents' = Append(tmEvents, "snapshot1")
    /\ pc' = TmNextPc(pc)
    /\ UNCHANGED << env, disp, out, raised, assertVars, workVars, psVars,
                    tracing, traced, snap2, cpVars >>

\* allocate_data() is called; data = [i for i in range(300_000)]
TmAllocData ==
    /\ pc = "tm_alloc_data"
    /\ \E b \in 1..MaxBytes :
         traced' = [ traced EXCEPT ![WorkloadLineSeq[1]] = @ + (IF tracing THEN b ELSE 0) ]
    /\ tmEvents' = Append(tmEvents, "workload")
    /\ pc' = TmNextPc(pc)
    /\ UNCHANGED << env, disp, out, raised, assertVars, workVars, psVars,
                    tracing, snap1, snap2, cpVars >>

\* mapping = {i: i * 2 for i in range(150_000)}
TmAllocMapping ==
    /\ pc = "tm_alloc_mapping"
    /\ \E b \in 1..MaxBytes :
         traced' = [ traced EXCEPT ![WorkloadLineSeq[2]] = @ + (IF tracing THEN b ELSE 0) ]
    /\ pc' = TmNextPc(pc)
    /\ UNCHANGED << env, disp, out, raised, assertVars, workVars, psVars,
                    tracing, snap1, snap2, tmEvents, cpVars >>

\* return len(data) + len(mapping): the locals die.  The allocator frees
\* their blocks, except what the interpreter's free lists keep (any part).
TmReturn ==
    /\ pc = "tm_return"
    /\ \E kept \in [ WorkloadLines -> 0..MaxBytes ] :
         /\ \A l \in WorkloadLines : kept[l] <= traced[l]
         /\ traced' = kept
    /\ pc' = TmNextPc(pc)
    /\ UNCHANGED << env, disp, out, raised, assertVars, workVars, psVars,
                    tracing, snap1, snap2, tmEvents, cpVars >>

\* snap2 = tracemalloc.take_snapshot()
TmSnap2 ==
    /\ pc = "tm_snap2"
    /\ tracing
    /\ snap2' = << traced >>
    /\ tmEvents' = Append(tmEvents, "snapshot2")
    /\ pc' = TmNextPc(pc)
    /\ UNCHANGED << env, disp, out, raised, assertVars, workVars, psVars,
                    tracing, traced, snap1, cpVars >>

\* The two printing loops: snap2.statistics("lineno") and
\* snap2.compare_to(snap1, "lineno"), for the workload's lines.
TmReport ==
    /\ pc = "tm_report"
    /\ snap1 # <<>> /\ snap2 # <<>>
    /\ out' = out
         \o [ k \in 1..Len(WorkloadLineSeq) |->
                <<"size", snap2[1][WorkloadLineSeq[k]]>> ]
         \o [ k \in 1..Len(WorkloadLineSeq) |->
                <<"size_diff", snap2[1][WorkloadLineSeq[k]] - snap1[1][WorkloadLineSeq[k]]>> ]
    /\ pc' = TmNextPc(pc)
    /\ UNCHANGED << env, disp, raised, assertVars, workVars, psVars, tmVars, cpVars >>

\* ------------------------------------------------------------ memory_profiler_example
\* A variant without the early return: the routine goes on to decorate and
\* run work() although the import failed.
MpImportFail_NoReturn ==
    /\ pc = "mp_import"
    /\ ~mpAvail
    /\ pc' = "mp_build"
    /\ UNCHANGED << env, disp, out, raised, assertVars, workVars, psVars, tmVars, cpVars >>

\* except Exception as e: two prints and return
MpImportFail ==
    /\ pc = "mp_import"
    /\ ~mpAvail
    /\ out' = out \o << <<"warning", "memory_profiler">>, <<"hint", "memory_profiler">> >>
    /\ pc' = "exit"
    /\ UNCHANGED << env, disp, raised, assertVars, workVars, psVars, tmVars, cpVars >>

\* from memory_profiler import profile   (succeeds)
MpImportOk ==
    /\ pc = "mp_import"
    /\ mpAvail
    /\ decorator' = "profile"
    /\ pc' = "mp_build"
    /\ UNCHANGED << env, disp, out, raised, assertVars, data, doubled, i, acc,
                    profiledRuns, psVars, tmVars, cpVars >>

\* result = work(), under @profile; data = [i for i in range(500_000)]
MpBuild ==
    /\ pc = "mp_build"
    /\ profiledRuns' = profiledRuns + 1
    /\ data' = RangeList(n)
    /\ pc' = "mp_double"
    /\ UNCHANGED << env, disp, out, raised, assertVars, doubled, i, acc, decorator,
                    psVars, tmVars, cpVars >>

\* doubled = [x * 2 for x in data]
MpDouble ==
    /\ pc = "mp_double"
    /\ doubled' = DoubledList(data)
    /\ pc' = "mp_sum"
    /\ UNCHANGED << env, disp, out, raised, assertVars, data, i, acc, decorator,
                    profiledRuns, psVars, tmVars, cpVars >>

\* return sum(doubled); print("Resultat:", result)
MpSum ==
    /\ pc = "mp_sum"
    /\ out' = Append(out, <<"result", SeqSum(doubled)>>)
    /\ data' = <<>>
    /\ doubled' = <<>>
    /\ pc' = "exit"
    /\ UNCHANGED << env, disp, raised, assertVars, i, acc, decorator, profiledRuns,
                    psVars, tmVars, cpVars >>

\* ------------------------------------------------------------ memory_profiler_eficient_example
\* from memory_profiler import profile   (succeeds)
MpeImportOk ==
    /\ pc = "mpe_import"
    /\ mpAvail
    /\ decorator' = "profile"
    /\ pc' = "mpe_call"
    /\ UNCHANGED << env, disp, out, raised, assertVars, data, doubled, i, acc,
                    profiledRuns, psVars, tmVars, cpVars >>

\* except Exception: def profile(func): return func
MpeImportFail ==
    /\ pc = "mpe_import"
    /\ ~mpAvail
    /\ decorator' = "noop"
    /\ pc' = "mpe_call"
    /\ UNCHANGED << env, disp, out, raised, assertVars, data, doubled, i, acc,
                    profiledRuns, psVars, tmVars, cpVars >>

\* result = work(): total = 0, and the profiler runs it only when the
\* decorator is memory_profiler's.
MpeCall ==
    /\ pc = "mpe_call"
    /\ profiledRuns' = IF decorator = "profile" THEN profiledRuns + 1 ELSE profiledRuns
    /\ acc' = 0
    /\ i' = 0
    /\ pc' = "mpe_loop"
    /\ UNCHANGED << env, disp, out, raised, assertVars, data, doubled, decorator,
                    psVars, tmVars, cpVars >>

\* for i in range(500_000): total += i * 2
MpeLoop ==
    /\ pc = "mpe_loop"
    /\ i < n
    /\ acc' = LoopBody(acc, i)
    /\ i' = i + 1
    /\ UNCHANGED << env, pc, disp, out, raised, assertVars, data, doubled, decorator,
                    profiledRuns, psVars, tmVars, cpVars >>

\* return total; print("Resultat (single-loop):", result)
MpePrint ==
    /\ pc = "mpe_loop"
    /\ i >= n
    /\ out' = Append(out, <<"result_single", acc>>)
    /\ pc' = "exit"
    /\ UNCHANGED << env, disp, raised, assertVars, workVars, psVars, tmVars, cpVars >>

\* ------------------------------------------------------------ psutil_rss_example
\* except Exception as e: two prints and return
PsImportFail ==
    /\ pc = "ps_import"
    /\ ~psAvail
    /\ out' = out \o << <<"warning", "psutil">>, <<"hint", "psutil">> >>
    /\ pc' = "exit"
    /\ UNCHANGED << env, disp, raised, assertVars, workVars, psVars, tmVars, cpVars >>

\* import psutil (succeeds); proc = psutil.Process(os.getpid())
PsImportOk ==
    /\ pc = "ps_import"
    /\ psAvail
    /\ pc' = "ps_rss_initial"
    /\ UNCHANGED << env, disp, out, raised, assertVars, workVars, psVars, tmVars, cpVars >>

\* print(f"RSS inicial: {rss_mb():.1f} MB"); data = [i for i in range(300_000)]
PsInitial ==
    /\ pc = "ps_rss_initial"
    /\ \E r \in 1..MaxRss : out' = Append(out, <<"rss", r>>)
    /\ rssSamples' = rssSamples + 1
    /\ held' = TRUE
    /\ pc' = "ps_rss_allocated"
    /\ UNCHANGED << env, disp, raised, assertVars, workVars, tmVars, cpVars >>

\* time.sleep(0.3); print(f"RSS després d'allocar: ..."); del data
PsAllocated ==
    /\ pc = "ps_rss_allocated"
    /\ \E r \in 1..MaxRss : out' = Append(out, <<"rss", r>>)
    /\ rssSamples' = rssSamples + 1
    /\ held' = FALSE
    /\ pc' = "ps_rss_final"
    /\ UNCHANGED << env, disp, raised, assertVars, workVars, tmVars, cpVars >>

\* time.sleep(0.3); print(f"RSS final: {rss_mb():.1f} MB")
PsFinal ==
    /\ pc = "ps_rss_final"
    /\ \E r \in 1..MaxRss : out' = Append(out, <<"rss", r>>)
    /\ rssSamples' = rssSamples + 1
    /\ pc' = "exit"
    /\ UNCHANGED << env, disp, raised, assertVars, workVars, held, tmVars, cpVars >>

\* ------------------------------------------------------------ specifications
Next ==
    \/ DispatchList
    \/ DispatchCall
    \/ DispatchNotFound
    \/ ListFunctionsRun
    \/ AssertEnter
    \/ AssertLoop
    \/ TimingT0
    \/ TimingWork
    \/ TimingT1
    \/ CpEnter
    \/ CpWork
    \/ CpExit
    \/ CpReport
    \/ TmStart
    \/ TmSnap1
    \/ TmAllocData
    \/ TmAllocMapping
    \/ TmReturn
    \/ TmSnap2
    \/ TmReport
    \/ MpImportFail
    \/ MpImportOk
    \/ MpBuild
    \/ MpDouble
    \/ MpSum
    \/ MpeImportOk
    \/ MpeImportFail
    \/ MpeCall
    \/ MpeLoop
    \/ MpePrint
    \/ PsImportFail
    \/ PsImportOk
    \/ PsInitial
    \/ PsAllocated
    \/ PsFinal

Spec == Init /\ [][Next]_vars

\* The loop of assertion_example on every bounded input sequence.
AssertInputs ==
    UNION { [ 1..len -> (0 - MinNeg)..MaxVal ] : len \in 0..MaxLen }

InitAssert ==
    /\ args_func = << "assertion_example" >>
    /\ mpAvail = FALSE /\ psAvail = FALSE /\ n = 0
    /\ pc = "assert_loop"
    /\ branch = "call" /\ invoked = << "assertion_example" >>
    /\ out = <<>> /\ raised = "none"
    /\ numbers \in AssertInputs /\ idx = 1 /\ total = 0
    /\ data = <<>> /\ doubled = <<>> /\ i = 0 /\ acc = 0
    /\ decorator = "unbound" /\ profiledRuns = 0
    /\ rssSamples = 0 /\ held = FALSE
    /\ tracing = FALSE /\ traced = [ l \in WorkloadLines |-> 0 ]
    /\ snap1 = <<>> /\ snap2 = <<>> /\ tmEvents = <<>>
    /\ profiling = FALSE /\ clock = 0 /\ t0 = 0

NextAssert == AssertLoop

SpecAssert == InitAssert /\ [][NextAssert]_vars

\* ------------------------------------------------------------ helpers of the properties
\* The position of the first element below zero, or Len(s) + 1.
FirstNegative(s) ==
    IF \E k \in 1..Len(s) : s[k] < 0
    THEN CHOOSE k \in 1..Len(s) : s[k] < 0 /\ \A j \in 1..(k - 1) : s[j] >= 0
    ELSE Len(s) + 1

\* The position of the first element that is zero or below, or Len(s) + 1.
FirstNonPositive(s) ==
    IF \E k \in 1..Len(s) : s[k] <= 0
    THEN CHOOSE k \in 1..Len(s) : s[k] <= 0 /\ \A j \in 1..(k - 1) : s[j] > 0
    ELSE Len(s) + 1

IsPrefix(s, t) == Len(s) <= Len(t) /\ \A k \in 1..Len(s) : s[k] = t[k]

NotFoundOutput(name) == << <<"notfound", name>> >> \o ListOutput

\* ------------------------------------------------------------ C1
\* C1: for every --func value that is not one of the seven advertised names
\* the dispatcher invokes no routine, prints the not-found message, then the
\* full advertised list, and finishes without raising.  (Stated for the
\* non-empty values; the empty string is the subject of C6.)
C1_UnadvertisedNameIsNotFound ==
    (args_func # <<>> /\ args_func[1] # "" /\ args_func[1] \notin Advertised)
        => /\ invoked = <<>>
           /\ raised = "none"
           /\ pc = "exit" => out = NotFoundOutput(args_func[1])

C3_AllThreeWarnAndReturn ==
    /\ (pc = "exit" /\ ~mpAvail
          /\ invoked \in { << "memory_profiler_example" >>,
                           << "memory_profiler_eficient_example" >> })
         => /\ Len(out) >= 1 /\ out[1] = <<"warning", "memory_profiler">>
            /\ raised = "none" /\ profiledRuns = 0
    /\ (pc = "exit" /\ ~psAvail /\ invoked = << "psutil_rss_example" >>)
         => /\ Len(out) >= 1 /\ out[1] = <<"warning", "psutil">>
            /\ raised = "none" /\ rssSamples = 0

\* C3 as amended: when the import fails, memory_profiler_example and
\* psutil_rss_example print their warning and hint and return without
\* raising, having run no profiled workload and taken no RSS sample;
\* memory_profiler_eficient_example prints no warning, binds the no-op
\* decorator, runs its workload unprofiled and prints the result, without
\* raising.  Nothing of a missing facility is ever used.
C3_DegradationPerRoutine ==
    /\ ~mpAvail => profiledRuns = 0
    /\ ~psAvail => rssSamples = 0
    /\ (pc = "exit" /\ ~mpAvail /\ invoked = << "memory_profiler_example" >>)
         => /\ out = << <<"warning", "memory_profiler">>, <<"hint", "memory_profiler">> >>
            /\ raised = "none"
    /\ (pc = "exit" /\ ~psAvail /\ invoked = << "psutil_rss_example" >>)
         => /\ out = << <<"warning", "psutil">>, <<"hint", "psutil">> >>
            /\ raised = "none"
    /\ (pc = "exit" /\ ~mpAvail /\ invoked = << "memory_profiler_eficient_example" >>)
         => /\ Len(out) = 1 /\ out[1][1] = "result_single"
            /\ decorator = "noop"
            /\ raised = "none"

\* The efficient variant has finished a non-empty workload without the profiler.
C3_Witness ==
    /\ pc = "exit" /\ ~mpAvail /\ n > 0
    /\ invoked = << "memory_profiler_eficient_example" >>
    /\ decorator = "noop" /\ Len(out) = 1

\* ------------------------------------------------------------ C4
\* C4: once tracemalloc_example or cprofile_example has returned, the
\* facility it acquired is released: the tracer is stopped and the
\* profiling context is closed.
C4_FacilitiesReleased ==
    (pc = "exit" /\ invoked \in { << "tracemalloc_example" >>, << "cprofile_example" >> })
        => (~tracing /\ ~profiling)

C6_ListBranchIffAbsent ==
    pc # "main" => (branch = "list" <=> args_func = <<>>)

\* C6 as amended: the list-only branch is taken exactly when the name
\* argument is absent or the empty string, and then the list is printed
\* and no routine invoked; every non-empty name is looked up, and either
\* the resolved callable is invoked exactly once or the not-found
\* diagnostic naming the argument is printed, followed by the list.
C6_ListBranchIffFalsy ==
    /\ pc = "main" => (branch = "none" /\ invoked = <<>>)
    /\ pc # "main" =>
         /\ branch = "list" <=> (args_func = <<>> \/ args_func = << "" >>)
         /\ branch = "list" => (invoked = <<>> /\ out = ListOutput /\ pc = "exit")
         /\ branch # "list" =>
              \/ /\ branch = "call"
                 /\ Callable(GlobalsGet(args_func[1]))
                 /\ invoked = << GlobalsGet(args_func[1]).def >>
              \/ /\ branch = "notfound"
                 /\ invoked = <<>>
                 /\ out = NotFoundOutput(args_func[1])

\* --func "" has printed the list without any lookup.
C6_Witness ==
    pc = "exit" /\ args_func = << "" >> /\ branch = "list" /\ out = ListOutput

\* ------------------------------------------------------------ C7
\* C7: the names the dispatcher invokes are the advertised ones: every
\* advertised name resolves to the callable routine of that name and
\* dispatching it invokes exactly that routine, the docstring's names are
\* advertised, and no name outside the advertised list is invoked.
C7_InvokedAreAdvertised ==
    /\ \A a \in Advertised : Callable(GlobalsGet(a)) /\ GlobalsGet(a).def = a
    /\ DocstringFns \subseteq Advertised
    /\ (pc # "main" /\ args_func # <<>> /\ args_func[1] \in Advertised)
         => (branch = "call" /\ invoked = << args_func[1] >>)
    /\ \A k \in 1..Len(invoked) : invoked[k] \in Advertised

\* ------------------------------------------------------------ C8
\* C8: in tracemalloc_example the baseline snapshot is taken after tracing
\* starts and before the workload runs, the second after the workload has
\* returned, and for every line of the workload the second snapshot's
\* bytes are at least the baseline's: every reported delta is non-negative.
C8_DeltasNonNegative ==
    /\ IsPrefix(tmEvents, << "start", "snapshot1", "workload", "snapshot2" >>)
    /\ snap1 # <<>> => tracing
    /\ (snap1 # <<>> /\ snap2 # <<>>)
         => \A l \in WorkloadLines : snap2[1][l] >= snap1[1][l]
    /\ \A k \in 1..Len(out) : out[k][1] = "size_diff" => out[k][2] >= 0

\* The report has been printed after the workload's data was freed entirely.
C8_Witness ==
    /\ pc = "exit" /\ invoked = << "tracemalloc_example" >>
    /\ snap1 # <<>> /\ snap2 # <<>>
    /\ \A l \in WorkloadLines : snap2[1][l] = 0
    /\ \E k \in 1..Len(out) : out[k][1] = "size_diff" /\ out[k][2] = 0

\* ------------------------------------------------------------ C9
\* C9: the loop of assertion_example aborts at the first element that is
\* zero or negative; an element equal to zero is never added to the total.
C9_StopsAtFirstNonPositive ==
    LET f == FirstNonPositive(numbers) IN
    /\ idx <= f
    /\ (pc = "exit" /\ f <= Len(numbers)) => (raised = "AssertionError" /\ idx = f)

\* ------------------------------------------------------------ C10
\* C10: for every workload size n the single loop of
\* memory_profiler_eficient_example yields what the build-double-sum
\* workload of memory_profiler_example yields, the sum of 2*i for
\* 0 <= i < n, and the routine prints it with the profiler or without.
C10_SingleLoopEqualsListBased ==
    /\ WorkListBased(n) = n * (n - 1)
    /\ pc = "mpe_loop" => (i <= n /\ acc = WorkListBased(i))
    /\ (pc = "exit" /\ invoked = << "memory_profiler_eficient_example" >>)
         => out = << <<"result_single", WorkListBased(n)>> >>
    /\ (pc = "exit" /\ invoked = << "memory_profiler_example" >> /\ mpAvail)
         => out = << <<"result", WorkListBased(n)>> >>

\* The efficient variant has printed the result of a workload of three or
\* more elements under the no-op decorator.
C10_Witness ==
    /\ pc = "exit" /\ invoked = << "memory_profiler_eficient_example" >>
    /\ ~mpAvail /\ n >= 3
    /\ out = << <<"result_single", WorkListBased(n)>> >>

====
